---- MODULE Spec2Model ----
(***************************************************************************)
(* Command resolution of the aureus server: the take, movement, enter and  *)
(* teleport executors over the containment hierarchy (Parent / Children)   *)
(* and the Position component.                                             *)
(*                                                                         *)
(* A string is a sequence of one-character strings, so that trimming,      *)
(* lower-casing, prefix matching and concatenation are computed.           *)
(* `bevy.entity(e).set_parent(p)` is a deferred command: an executor reads *)
(* the world as it stood when the system started, and its reparentings are *)
(* applied, in the order issued, when the system's buffer is flushed.      *)
(* Position is a component written in place, visible to the next command.  *)
(* An EventReader advances its cursor one event at a time as its iterator  *)
(* is consumed, and an event lives for two updates: what a system leaves   *)
(* unread when it returns early is read by its next run, and is gone after *)
(* that.                                                                   *)
(***************************************************************************)
EXTENDS Integers, Sequences, FiniteSets, TLC

VARIABLES parent, children, position, pre, log, unread, call

vars == <<parent, children, position, pre, log, unread, call>>

(***************************************************************************)
(* Bounds                                                                  *)
(***************************************************************************)
\* commands read by one executor in one tick
MaxQueue == 2

\* largest absolute value of a role and of a permission given to Character::can
MaxRole == 5

\* words an input line given to the matchers is made of
MaxWords == 3

(***************************************************************************)
(* Strings                                                                 *)
(***************************************************************************)
Space == " "

to_lowercase_char(c) ==
    CASE c = "A" -> "a"
      [] c = "B" -> "b"
      [] OTHER -> c

to_lowercase(s) == [k \in 1..Len(s) |-> to_lowercase_char(s[k])]

RECURSIVE trim_start(_)
trim_start(s) ==
    IF s # <<>> /\ Head(s) = Space THEN trim_start(Tail(s)) ELSE s

RECURSIVE trim_end(_)
trim_end(s) ==
    IF s # <<>> /\ s[Len(s)] = Space THEN trim_end(SubSeq(s, 1, Len(s) - 1)) ELSE s

trim(s) == trim_end(trim_start(s))

starts_with(s, p) == Len(s) >= Len(p) /\ SubSeq(s, 1, Len(p)) = p

skip(s, n) == SubSeq(s, n + 1, Len(s))

contains(v, x) == \E k \in 1..Len(v) : v[k] = x

truncate(v, n) == IF Len(v) > n THEN SubSeq(v, 1, n) ELSE v

Digits == <<"0", "1", "2", "3", "4", "5", "6", "7", "8", "9">>

RECURSIVE to_string(_)
to_string(n) ==
    IF n < 10 THEN <<Digits[n + 1]>> ELSE to_string(n \div 10) \o <<Digits[(n % 10) + 1]>>

(***************************************************************************)
(* The world: entities and their components                                *)
(***************************************************************************)
Tiles == {"t0", "t1", "t2", "t3", "t4"}
Players == {"p1", "p2"}
Inventories == {"v1", "v2"}
Items == {"i1", "i2", "i3", "i4", "i5"}
Transitions == {"x1", "x2", "x3"}

NoEntity == "none"

Zones == {"Void", "Movement"}

IVec3(x, y, z) == <<x, y, z>>

add(a, b) == <<a[1] + b[1], a[2] + b[2], a[3] + b[3]>>

Pos(z, c) == [zone |-> z, coords |-> c]

\* Position of each Tile: unique per (zone, coords)
TilePosition ==
    "t0" :> Pos("Void", IVec3(0, 0, 0)) @@
    "t1" :> Pos("Void", IVec3(0, 1, 0)) @@
    "t2" :> Pos("Movement", IVec3(0, 0, 0)) @@
    "t3" :> Pos("Movement", IVec3(0, -1, 0)) @@
    "t4" :> Pos("Void", IVec3(0, 2, 0))

\* Client.id of each player entity
ClientId == "p1" :> "c1" @@ "p2" :> "c2"

Clients == {"c1", "c2"}

\* the connected clients: c3 is connected and has no player entity
Connected == Clients \cup {"c3"}

\* Character.config.brief
Brief == "p1" :> FALSE @@ "p2" :> TRUE

\* permissions::TELEPORT, a single bit of the role
TELEPORT == 1

\* Character.role
Role == "p1" :> TELEPORT @@ "p2" :> 2 * TELEPORT

\* Children of a player entity (static: the Inventory)
PlayerChildren == "p1" :> <<"v1">> @@ "p2" :> <<"v2">>

\* Item { name, short_name, tags } and the CanTake marker
Item ==
    "i1" :> [name |-> <<"a", "b">>, short_name |-> <<"a">>, tags |-> << <<"b">> >>] @@
    "i2" :> [name |-> <<"a", "b">>, short_name |-> <<"a">>, tags |-> << >>] @@
    "i3" :> [name |-> <<"A", "b">>, short_name |-> <<"A">>, tags |-> << <<"B">> >>] @@
    "i4" :> [name |-> <<"a", "b">>, short_name |-> <<"a">>, tags |-> << <<"b">> >>] @@
    "i5" :> [name |-> <<"a", "b">>, short_name |-> <<"a">>, tags |-> << >>]

CanTake == {"i1", "i2", "i3", "i5"}

\* Transition { tags, zone, coords }
Transition ==
    "x1" :> [tags |-> << <<"a", "b">> >>, zone |-> "Movement", coords |-> IVec3(0, 0, 0)] @@
    "x2" :> [tags |-> << <<"b">>, <<"a", "b">> >>, zone |-> "Void", coords |-> IVec3(0, 1, 0)] @@
    "x3" :> [tags |-> << <<"B">> >>, zone |-> "Void", coords |-> IVec3(0, 0, 0)]

Owners == Tiles \cup Inventories

\* entities whose Parent can change: players and items
Movable == Players \cup Items

World(par, ch, pos) == [parent |-> par, children |-> ch, position |-> pos]

InitParent ==
    "p1" :> "t0" @@ "p2" :> "t0" @@
    "i1" :> "t0" @@ "i2" :> "t0" @@ "i3" :> "t0" @@ "i4" :> "t0" @@ "i5" :> "t1" @@
    "x1" :> "t0" @@ "x2" :> "t0" @@ "x3" :> "t2"

InitChildren ==
    "t0" :> <<"i3", "p1", "x1", "i1", "i2", "x2", "p2", "i4">> @@
    "t1" :> <<"i5">> @@
    "t2" :> <<"x3">> @@
    "t3" :> <<>> @@
    "t4" :> <<>> @@
    "v1" :> <<>> @@
    "v2" :> <<>>

InitPosition == [p \in Players |-> TilePosition[InitParent[p]]]

(***************************************************************************)
(* Hierarchy: set_parent                                                   *)
(***************************************************************************)
remove_from_children(ch, owner, child) ==
    [ch EXCEPT ![owner] = SelectSeq(@, LAMBDA e : e # child)]

\* a set_parent that attaches without detaching from the previous parent
set_parent_keeps_old(w, child, new) ==
    [w EXCEPT !.parent = [@ EXCEPT ![child] = new],
              !.children = [@ EXCEPT ![new] = Append(SelectSeq(@, LAMBDA e : e # child), child)]]

\* AddChild: detach from the previous parent (unless it is the new one), then
\* retain(!= child) and push on the new parent's Children, and set Parent.
set_parent(w, child, new) ==
    LET old == w.parent[child]
        detached == IF old \in Owners /\ old # new
                    THEN remove_from_children(w.children, old, child)
                    ELSE w.children
        attached == [detached EXCEPT
                        ![new] = Append(SelectSeq(@, LAMBDA e : e # child), child)]
    IN  [w EXCEPT !.parent = [@ EXCEPT ![child] = new], !.children = attached]

RECURSIVE apply_buffer(_, _)
apply_buffer(w, ops) ==
    IF ops = <<>> THEN w
    ELSE apply_buffer(set_parent(w, ops[1].child, ops[1].parent), Tail(ops))

(***************************************************************************)
(* Commands, responses and the executors' log                              *)
(***************************************************************************)
\* ParsedCommand { from, command }: kind is the Command variant, arg its string,
\* flag the `all` flag of Take / the Some-ness of Enter's Option<String>.
ParsedCommand(from, kind, arg, flag) ==
    [from |-> from, kind |-> kind, arg |-> arg, flag |-> flag]

\* the world before a run and the commands the run was given
Snapshot(w, commands) ==
    [parent |-> w.parent, children |-> w.children, position |-> w.position,
     commands |-> commands]

Message(from, content) == [from |-> from, content |-> content]

\* One log entry per command an executor read: what it resolved, the deferred
\* reparentings it issued, the text it sent (sent = FALSE: nothing was sent)
\* and the world right after its own effects took place.
Entry(cmd, player, tile, sel, ops, sent, resp) ==
    [from |-> cmd.from, kind |-> cmd.kind, arg |-> cmd.arg, flag |-> cmd.flag,
     player |-> player, tile |-> tile, sel |-> sel, ops |-> ops,
     sent |-> sent, resp |-> resp, after |-> <<>>]

Skipped(cmd) == Entry(cmd, NoEntity, NoEntity, <<>>, <<>>, FALSE, <<>>)

Op(child, new) == [child |-> child, parent |-> new]

\* the tile (if any) whose Position has this zone and these coordinates
tile_at(zone, coords) ==
    {t \in Tiles : TilePosition[t].zone = zone /\ TilePosition[t].coords = coords}

\* view_for_tile(tile, sprite, brief): the rendered view is an opaque text
view_for_tile(t, brief) == <<"view", t, IF brief THEN "brief" ELSE "full">>

\* a flush that applies the reparentings of the newest entry first
RECURSIVE flush_newest_first(_, _)
flush_newest_first(w, es) ==
    IF es = <<>> THEN <<>>
    ELSE LET n == Len(es)
             w2 == apply_buffer(w, es[n].ops)
         IN  flush_newest_first(w2, SubSeq(es, 1, n - 1)) \o <<[es[n] EXCEPT !.after = w2]>>

\* apply_system_buffers: each entry's reparentings, in the order issued
RECURSIVE flush(_, _)
flush(w, es) ==
    IF es = <<>> THEN <<>>
    ELSE LET w2 == apply_buffer(w, es[1].ops)
         IN  <<[es[1] EXCEPT !.after = w2]>> \o flush(w2, Tail(es))

last_world(w, es) == IF es = <<>> THEN w ELSE es[Len(es)].after

(***************************************************************************)
(* take                                                                    *)
(***************************************************************************)
TAKE_ == <<"t", "a", "k", "e", " ">>
GET_ == <<"g", "e", "t", " ">>
ALL_ == <<"a", "l", "l", " ">>

\* ^(take|get) ((?P<all>all) )?(?P<target>.+)$
take_captures(content) ==
    LET rest == IF starts_with(content, TAKE_) THEN skip(content, Len(TAKE_))
                ELSE IF starts_with(content, GET_) THEN skip(content, Len(GET_))
                ELSE <<>>
        all == starts_with(rest, ALL_) /\ Len(rest) > Len(ALL_)
    IN  [matched |-> rest # <<>>,
         all |-> all,
         target |-> IF all THEN skip(rest, Len(ALL_)) ELSE rest]

\* handle_take: the commands sent for one input line (none when it returns false)
handle_take(client, content) ==
    LET captures == take_captures(content)
    IN  IF captures.matched
        THEN <<ParsedCommand(client, "take", to_lowercase(trim(captures.target)), captures.all)>>
        ELSE <<>>

\* item_name_list: names grouped in order of first occurrence, "a NAME" for a
\* group of one and "COUNT NAMEs" otherwise, joined with ", " and " and "
count_of(names, n) == Len(SelectSeq(names, LAMBDA x : x = n))

RECURSIVE group_names(_)
group_names(names) ==
    IF names = <<>> THEN <<>>
    ELSE <<Head(names)>> \o group_names(SelectSeq(Tail(names), LAMBDA x : x # Head(names)))

render_group(names, n) ==
    IF count_of(names, n) = 1 THEN <<"a", " ">> \o n
    ELSE to_string(count_of(names, n)) \o <<" ">> \o n \o <<"s">>

RECURSIVE join_groups(_)
join_groups(parts) ==
    IF parts = <<>> THEN <<>>
    ELSE IF Len(parts) = 1 THEN parts[1]
    ELSE IF Len(parts) = 2 THEN parts[1] \o <<" ", "a", "n", "d", " ">> \o parts[2]
    ELSE parts[1] \o <<",", " ">> \o join_groups(Tail(parts))

item_name_list(names) ==
    LET groups == group_names(names)
    IN  join_groups([k \in 1..Len(groups) |-> render_group(names, groups[k])])

YOU_TAKE_ == <<"Y", "o", "u", " ", "t", "a", "k", "e", " ">>
YOU_DONT_SEE_A_ ==
    <<"Y", "o", "u", " ", "d", "o", "n", "'", "t", " ", "s", "e", "e", " ", "a", " ">>
HERE_DOT == <<" ", "h", "e", "r", "e", ".">>

is_substring(s, t) ==
    \E k \in 0..(Len(s) - Len(t)) : SubSeq(s, k + 1, k + Len(t)) = t

\* a filter that accepts a target found anywhere in the name
take_filter_substring(i, target) ==
    \/ is_substring(to_lowercase(Item[i].name), target)
    \/ to_lowercase(Item[i].short_name) = target
    \/ contains(Item[i].tags, target)

\* the filter of take: name and short name lower-cased, tags as stored
take_filter(i, target) ==
    \/ to_lowercase(Item[i].name) = target
    \/ to_lowercase(Item[i].short_name) = target
    \/ contains(Item[i].tags, target)

\* siblings taken without looking at the CanTake marker
items_found_any(siblings, target) ==
    SelectSeq(siblings, LAMBDA s : s \in Items /\ take_filter(s, target))

\* siblings.iter().filter_map(|s| items.get(*s).ok()).filter(..): the children
\* of the tile that are items with CanTake and pass the filter, in child order
items_found(siblings, target) ==
    SelectSeq(siblings, LAMBDA s : s \in Items /\ s \in CanTake /\ take_filter(s, target))

\* players.iter_mut().find(|(c, _, _)| c.id == command.from)
find_player(from) ==
    IF \E p \in Players : ClientId[p] = from
    THEN CHOOSE p \in Players : ClientId[p] = from
    ELSE NoEntity

\* children.iter().find_map(|child| inventories.get(*child).ok())
find_inventory(player) ==
    LET invs == SelectSeq(PlayerChildren[player], LAMBDA e : e \in Inventories)
    IN  IF invs = <<>> THEN NoEntity ELSE invs[1]

\* the body of the loop of take for one command, on the world the system sees
take_command(w, cmd) ==
    LET player == find_player(cmd.from)
        tile == IF player = NoEntity THEN NoEntity ELSE w.parent[player]
        inventory == IF player = NoEntity THEN NoEntity ELSE find_inventory(player)
    IN  IF player = NoEntity \/ tile \notin Tiles \/ inventory = NoEntity
        THEN Skipped(cmd)
        ELSE LET matches == items_found(w.children[tile], cmd.arg)
                 kept == IF cmd.flag THEN matches ELSE truncate(matches, 1)
                 ops == [k \in 1..Len(kept) |-> Op(kept[k], inventory)]
                 item_names == item_name_list([k \in 1..Len(kept) |-> Item[kept[k]].name])
             IN  Entry(cmd, player, tile, kept, ops, TRUE,
                       IF item_names = <<>>
                       THEN YOU_DONT_SEE_A_ \o cmd.arg \o HERE_DOT
                       ELSE YOU_TAKE_ \o item_names \o <<".">>)

\* take: every command is resolved against the world at the start of the
\* system, then the buffer is flushed
take(w, commands) ==
    flush(w, [k \in 1..Len(commands) |-> take_command(w, commands[k])])

(***************************************************************************)
(* movement                                                                *)
(***************************************************************************)
NORTH == <<"n", "o", "r", "t", "h">>
SOUTH == <<"s", "o", "u", "t", "h">>
EAST == <<"e", "a", "s", "t">>
WEST == <<"w", "e", "s", "t">>
UP == <<"u", "p">>
DOWN == <<"d", "o", "w", "n">>

\* a resolver that knows the long names only
offset_for_direction_long_only(direction) ==
    CASE direction = NORTH -> <<IVec3(0, -1, 0)>>
      [] direction = NORTH \o EAST -> <<IVec3(1, -1, 0)>>
      [] direction = EAST -> <<IVec3(1, 0, 0)>>
      [] direction = SOUTH \o EAST -> <<IVec3(1, 1, 0)>>
      [] direction = SOUTH -> <<IVec3(0, 1, 0)>>
      [] direction = SOUTH \o WEST -> <<IVec3(-1, 1, 0)>>
      [] direction = WEST -> <<IVec3(-1, 0, 0)>>
      [] direction = NORTH \o WEST -> <<IVec3(-1, -1, 0)>>
      [] direction = UP -> <<IVec3(0, 0, 1)>>
      [] direction = DOWN -> <<IVec3(0, 0, -1)>>
      [] OTHER -> <<>>

\* offset_for_direction: Some(offset) as <<offset>>, None as <<>>
offset_for_direction(direction) ==
    CASE direction \in {NORTH, <<"n">>} -> <<IVec3(0, -1, 0)>>
      [] direction \in {NORTH \o EAST, <<"n", "e">>} -> <<IVec3(1, -1, 0)>>
      [] direction \in {EAST, <<"e">>} -> <<IVec3(1, 0, 0)>>
      [] direction \in {SOUTH \o EAST, <<"s", "e">>} -> <<IVec3(1, 1, 0)>>
      [] direction \in {SOUTH, <<"s">>} -> <<IVec3(0, 1, 0)>>
      [] direction \in {SOUTH \o WEST, <<"s", "w">>} -> <<IVec3(-1, 1, 0)>>
      [] direction \in {WEST, <<"w">>} -> <<IVec3(-1, 0, 0)>>
      [] direction \in {NORTH \o WEST, <<"n", "w">>} -> <<IVec3(-1, -1, 0)>>
      [] direction \in {UP, <<"u">>} -> <<IVec3(0, 0, 1)>>
      [] direction \in {DOWN, <<"d">>} -> <<IVec3(0, 0, -1)>>
      [] OTHER -> <<>>

\* ^(north|n|northeast|ne|east|e|southeast|se|south|s|southwest|sw|west|w|northwest|nw|up|u|down|d)$
movement_regex ==
    {NORTH, <<"n">>, NORTH \o EAST, <<"n", "e">>, EAST, <<"e">>, SOUTH \o EAST, <<"s", "e">>,
     SOUTH, <<"s">>, SOUTH \o WEST, <<"s", "w">>, WEST, <<"w">>, NORTH \o WEST, <<"n", "w">>,
     UP, <<"u">>, DOWN, <<"d">>}

\* a matcher whose pattern is not anchored: a direction anywhere in the line
parse_movement_unanchored(client, content) ==
    IF \E a, b \in 1..Len(content) : SubSeq(content, a, b) \in movement_regex
    THEN <<ParsedCommand(client, "movement", content, FALSE)>>
    ELSE <<>>

\* parse_movement: the commands sent for one input line
parse_movement(client, content) ==
    IF content \in movement_regex
    THEN <<ParsedCommand(client, "movement", content, FALSE)>>
    ELSE <<>>

YOU_CANT_GO_THAT_WAY ==
    <<"Y", "o", "u", " ", "c", "a", "n", "'", "t", " ", "g", "o", " ",
      "t", "h", "a", "t", " ", "w", "a", "y", ".">>

\* a lookup that subtracts the offset
find_destination_backwards(from, offset) ==
    tile_at(TilePosition[from].zone,
            add(TilePosition[from].coords, <<0 - offset[1], 0 - offset[2], 0 - offset[3]>>))

\* a lookup that compares the coordinates and not the zone
find_destination_any_zone(from, offset) ==
    {t \in Tiles : TilePosition[t].coords = add(TilePosition[from].coords, offset)}

\* tiles.iter().find(|(_, p, _, _)| p.zone == .. && p.coords == .. + offset)
find_destination(from, offset) ==
    tile_at(TilePosition[from].zone, add(TilePosition[from].coords, offset))

\* the body of the loop of movement for one command, on the world the system sees
movement_command(w, cmd) ==
    LET player == find_player(cmd.from)
        tile == IF player = NoEntity THEN NoEntity ELSE w.parent[player]
        offset == offset_for_direction(cmd.arg)
    IN  IF player = NoEntity \/ tile \notin Tiles \/ offset = <<>>
        THEN Skipped(cmd)
        ELSE LET found == find_destination(tile, offset[1])
             IN  IF found = {}
                 THEN Entry(cmd, player, tile, <<>>, <<>>, TRUE, YOU_CANT_GO_THAT_WAY)
                 ELSE LET target == CHOOSE t \in found : TRUE
                      IN  Entry(cmd, player, tile, <<target>>, <<Op(player, target)>>,
                                TRUE, view_for_tile(target, Brief[player]))

\* movement: every command is resolved against the world at the start of the
\* system, then the buffer is flushed
movement(w, commands) ==
    flush(w, [k \in 1..Len(commands) |-> movement_command(w, commands[k])])

(***************************************************************************)
(* enter                                                                   *)
(***************************************************************************)
ENTER == <<"e", "n", "t", "e", "r">>

\* ^(enter)(?P<transition> .+)?$
enter_captures(content) ==
    LET rest == IF starts_with(content, ENTER) THEN skip(content, Len(ENTER)) ELSE <<>>
        some == Len(rest) >= 2 /\ rest[1] = Space
    IN  [matched |-> starts_with(content, ENTER) /\ (rest = <<>> \/ some),
         some |-> some,
         transition |-> rest]

\* parse_enter: the commands sent for one input line; the target is an Option
parse_enter(client, content) ==
    LET captures == enter_captures(content)
    IN  IF captures.matched
        THEN <<ParsedCommand(client, "enter",
                             IF captures.some THEN trim(captures.transition) ELSE <<>>,
                             captures.some)>>
        ELSE <<>>

NOWHERE_TO_ENTER ==
    <<"T", "h", "e", "r", "e", " ", "i", "s", " ", "n", "o", "w", "h", "e", "r", "e",
      " ", "t", "o", " ", "e", "n", "t", "e", "r", " ", "f", "r", "o", "m", " ", "h",
      "e", "r", "e", ".">>

COULD_NOT_FIND_ENTRANCE ==
    <<"C", "o", "u", "l", "d", " ", "n", "o", "t", " ", "f", "i", "n", "d", " ", "e",
      "n", "t", "r", "a", "n", "c", "e", ".">>

\* Position written in place
set_position(w, player, zone, coords) ==
    [w EXCEPT !.position = [@ EXCEPT ![player] = Pos(zone, coords)]]

Done(e, w) == [e EXCEPT !.after = w]

\* the requester's tile looked up through its Parent
enter_tile_by_parent(w, player) == {w.parent[player]}

\* tiles.iter().find(|(p, _, _, _)| p.zone == player_position.zone && ..): the
\* tile whose Position is the player's Position
enter_tile(w, player) == tile_at(w.position[player].zone, w.position[player].coords)

\* a search that takes the first transition whatever the target
find_transition_any(transitions, cmd) == transitions

\* a search that, without a target, keeps the last transition first
find_transition_untagged_last(transitions, cmd) ==
    IF cmd.flag
    THEN SelectSeq(transitions, LAMBDA x : contains(Transition[x].tags, cmd.arg))
    ELSE [k \in 1..Len(transitions) |-> transitions[Len(transitions) + 1 - k]]

\* a search that keeps the last qualifying transition first
find_transition_last(transitions, cmd) ==
    LET found == SelectSeq(transitions,
                           LAMBDA x : ~cmd.flag \/ contains(Transition[x].tags, cmd.arg))
    IN  [k \in 1..Len(found) |-> found[Len(found) + 1 - k]]

\* transitions.iter().find(|t| target.map_or(true, |tag| t.tags.contains(tag)))
find_transition(transitions, cmd) ==
    SelectSeq(transitions, LAMBDA x : ~cmd.flag \/ contains(Transition[x].tags, cmd.arg))

\* the body of the loop of enter for one command
enter_command(w, cmd) ==
    LET player == find_player(cmd.from)
        here == IF player = NoEntity THEN {} ELSE enter_tile(w, player)
    IN  IF player = NoEntity \/ here = {}
        THEN Done(Skipped(cmd), w)
        ELSE LET tile == CHOOSE t \in here : TRUE
                 transitions == SelectSeq(w.children[tile], LAMBDA e : e \in Transitions)
                 matching == find_transition(transitions, cmd)
             IN  IF transitions = <<>>
                 THEN Done(Entry(cmd, player, tile, <<>>, <<>>, TRUE, NOWHERE_TO_ENTER), w)
                 ELSE IF matching = <<>>
                 THEN Done(Entry(cmd, player, tile, <<>>, <<>>, TRUE,
                                 COULD_NOT_FIND_ENTRANCE), w)
                 ELSE LET transition == Transition[matching[1]]
                          found == tile_at(transition.zone, transition.coords)
                      IN  IF found = {}
                          THEN Done(Entry(cmd, player, tile, <<matching[1]>>, <<>>,
                                          FALSE, <<>>), w)
                          ELSE LET target == CHOOSE t \in found : TRUE
                               IN  Done(Entry(cmd, player, tile, <<matching[1]>>, <<>>, TRUE,
                                              view_for_tile(target, FALSE)),
                                        set_position(w, player, TilePosition[target].zone,
                                                     TilePosition[target].coords))

\* enter: the commands in order, each on the world the previous one left
RECURSIVE enter(_, _)
enter(w, commands) ==
    IF commands = <<>> THEN <<>>
    ELSE LET e == enter_command(w, commands[1])
         IN  <<e>> \o enter(e.after, Tail(commands))

(***************************************************************************)
(* teleport                                                                *)
(***************************************************************************)
TELEPORT_ == <<"t", "e", "l", "e", "p", "o", "r", "t", " ">>
TP_ == <<"t", "p", " ">>
HERE == <<"h", "e", "r", "e">>
MOVEMENT == <<"m", "o", "v", "e", "m", "e", "n", "t">>
VOID == <<"v", "o", "i", "d">>

\* a decimal digit outside ASCII (ARABIC-INDIC DIGIT THREE), as one character:
\* \d of the regex matches it and parse::<i32> rejects it
OtherDigits == {"U+0663"}

is_ascii_digit(c) == \E k \in 1..Len(Digits) : Digits[k] = c

\* \d: any decimal digit
is_digit(c) == is_ascii_digit(c) \/ c \in OtherDigits

\* m.as_str().parse::<i32>().ok() ... unwrap_or_default() of one digit
parse_digit(c) ==
    IF is_ascii_digit(c) THEN (CHOOSE k \in 1..Len(Digits) : Digits[k] = c) - 1
    ELSE 0

\* ^(teleport|tp) (here|(.+)) \(((\d) (\d) (\d))\)$
teleport_captures(content) ==
    LET rest == IF starts_with(content, TELEPORT_) THEN skip(content, Len(TELEPORT_))
                ELSE IF starts_with(content, TP_) THEN skip(content, Len(TP_))
                ELSE <<>>
        n == Len(rest)
        matched == /\ n >= 9
                   /\ rest[n - 7] = Space /\ rest[n - 6] = "("
                   /\ is_digit(rest[n - 5]) /\ rest[n - 4] = Space
                   /\ is_digit(rest[n - 3]) /\ rest[n - 2] = Space
                   /\ is_digit(rest[n - 1]) /\ rest[n] = ")"
    IN  [matched |-> matched,
         region |-> IF matched THEN SubSeq(rest, 1, n - 8) ELSE <<>>,
         digits |-> IF matched THEN <<rest[n - 5], rest[n - 3], rest[n - 1]>> ELSE <<>>]

\* the messages of the inbox the regex of teleport captures
teleport_message(client, content) ==
    LET captures == teleport_captures(content)
    IN  IF captures.matched
        THEN <<[from |-> client, kind |-> "teleport", arg |-> captures.region,
                flag |-> FALSE, digits |-> captures.digits]>>
        ELSE <<>>

\* & on non-negative values
RECURSIVE bitand(_, _)
bitand(a, b) ==
    IF a = 0 \/ b = 0 THEN 0
    ELSE (a % 2) * (b % 2) + 2 * bitand(a \div 2, b \div 2)

\* the 16 bits of an i16 as an unsigned value, and back
to_u16(v) == v % 65536

from_u16(u) == IF u >= 32768 THEN u - 65536 ELSE u

\* i16 & i16
bitand_i16(a, b) == from_u16(bitand(to_u16(a), to_u16(b)))

\* a test that any requested bit is held
can_any_bit(role, permission) == bitand_i16(role, permission) # 0

\* a test that the role is not empty
can_nonzero(role, permission) == role # 0

\* Character::can: self.role & permission == permission
can(role, permission) == bitand_i16(role, permission) = permission

\* a mapping whose fallback is the other zone
zone_for_region_movement(region) ==
    CASE region = MOVEMENT -> "Movement"
      [] region = VOID -> "Void"
      [] OTHER -> "Movement"

\* match region { "movement" => Zone::Movement, "void" => Zone::Void, _ => Zone::Void }
zone_for_region(region) ==
    CASE region = MOVEMENT -> "Movement"
      [] region = VOID -> "Void"
      [] OTHER -> "Void"

\* the body of the loop of teleport for one message that passed both checks
teleport_command(w, cmd, player) ==
    LET zone == IF cmd.arg # HERE THEN zone_for_region(cmd.arg)
                ELSE w.position[player].zone
        coords == IVec3(parse_digit(cmd.digits[1]), parse_digit(cmd.digits[2]),
                        parse_digit(cmd.digits[3]))
    IN  Done(Entry(cmd, player, NoEntity, cmd.digits, <<>>, FALSE, <<>>),
             set_position(w, player, zone, coords))

\* teleport: the messages in order; a client without a player or a Character
\* without the permission makes the system return
RECURSIVE teleport(_, _)
teleport(w, messages) ==
    IF messages = <<>> THEN <<>>
    ELSE LET player == find_player(messages[1].from)
         IN  IF player = NoEntity \/ ~can(Role[player], TELEPORT)
             THEN <<Done(Skipped(messages[1]), w)>>
             ELSE LET e == teleport_command(w, messages[1], player)
                  IN  <<e>> \o teleport(e.after, Tail(messages))

\* what the reader of teleport has not read when the system ends: the messages
\* behind the last one it read (none when the loop ran to its end), without
\* those carried over from the tick before (`carried` of them, the oldest),
\* which the next update of the events clears
left_unread(carried, messages, entries) ==
    LET from == IF Len(entries) > carried THEN Len(entries) ELSE carried
    IN  SubSeq(messages, from + 1, Len(messages))

(***************************************************************************)
(* map                                                                     *)
(***************************************************************************)
\* let width = 64; let height = 16;
width == 64

height == 16

\* a tile of a layout: its Position and its Sprite's character
MapTile(zone, coords, character) ==
    [zone |-> zone, coords |-> coords, character |-> character]

\* tile_map.get(zone, coords).and_then(|e| tiles.get(*e).ok()): the tiles of
\* the layout at this place (none or one)
tile_map_get(layout, zone, coords) ==
    {t \in layout : t.zone = zone /\ t.coords = coords}

\* sprite.character.chars().next().unwrap_or(' ')
first_char(character) == IF character = <<>> THEN Space ELSE character[1]

\* the assignments map[(y - start_y) as usize][(x - start_x) as usize] = ch of
\* the two loops x in start_x..=end_x, y in start_y..=end_y, as (row, col, ch)
\* with the indices counted from 0
map_writes(layout, pos) ==
    LET start_x == pos.coords[1] - (width \div 2)
        end_x == pos.coords[1] + (width \div 2)
        start_y == pos.coords[2] - (height \div 2)
        end_y == pos.coords[2] + (height \div 2)
        own(x, y) == x = pos.coords[1] /\ y = pos.coords[2]
        found(x, y) == tile_map_get(layout, pos.zone, IVec3(x, y, pos.coords[3]))
        written == {c \in (start_x..end_x) \X (start_y..end_y) :
                       own(c[1], c[2]) \/ found(c[1], c[2]) # {}}
    IN  {[row |-> c[2] - start_y, col |-> c[1] - start_x,
          ch |-> IF own(c[1], c[2]) THEN "@"
                 ELSE first_char((CHOOSE t \in found(c[1], c[2]) : TRUE).character)] :
            c \in written}

\* map for one message of a client whose player is at pos: the vector is
\* vec![vec![' '; width]; height]; an assignment outside of it panics (index
\* out of bounds) and nothing is sent; otherwise the zone and the rows are sent
map_render(layout, pos) ==
    LET writes == map_writes(layout, pos)
        outside == \E w \in writes : w.row >= height \/ w.col >= width
        cell(r, c) == IF \E w \in writes : w.row = r /\ w.col = c
                      THEN (CHOOSE w \in writes : w.row = r /\ w.col = c).ch
                      ELSE Space
    IN  IF outside
        THEN [panicked |-> TRUE, sent |-> FALSE, zone |-> pos.zone, rows |-> <<>>]
        ELSE [panicked |-> FALSE, sent |-> TRUE, zone |-> pos.zone,
              rows |-> [r \in 1..height |-> [c \in 1..width |-> cell(r - 1, c - 1)]]]

(***************************************************************************)
(* Input: the lines the clients send in one tick                           *)
(***************************************************************************)
TakeLines ==
    {TAKE_ \o <<"a">>,
     TAKE_ \o ALL_ \o <<" ", "A", "B", " ">>,
     GET_ \o <<"b">>}

\* the take lines of the specification of the four executors
FewTakeLines == {GET_ \o <<"b">>}

\* the take lines and the movement lines of the specification of both reparenting
\* executors
SomeTakeLines == {TAKE_ \o <<"a">>}

MovementLines == {<<"s">>, NORTH}

FewMovementLines == {<<"s">>}

EnterLines ==
    {ENTER,
     ENTER \o <<" ", "a", "b">>,
     ENTER \o <<" ", " ", "b", " ">>}

FewEnterLines == {ENTER \o <<" ", "a", "b">>, ENTER}

TeleportLines ==
    {TP_ \o HERE \o <<" ", "(", "0", " ", "1", " ", "0", ")">>,
     TELEPORT_ \o MOVEMENT \o <<" ", "(", "0", " ", "0", " ", "0", ")">>}

\* the lines of one tick: up to max lines, each from one of the clients
InboxUpTo(clients, lines, max) ==
    UNION {[1..n -> {Message(c, l) : c \in clients, l \in lines}] : n \in 1..max}

InboxOf(clients, lines) == InboxUpTo(clients, lines, MaxQueue)

Inbox(lines) == InboxOf(Clients, lines)

\* the teleport lines of the teleport executor alone: the current zone, a known
\* zone and an unknown zone name
AllTeleportLines ==
    {TP_ \o HERE \o <<" ", "(", "0", " ", "1", " ", "0", ")">>,
     TELEPORT_ \o MOVEMENT \o <<" ", "(", "U+0663", " ", "1", " ", "0", ")">>,
     TP_ \o <<"x">> \o <<" ", "(", "2", " ", "0", " ", "9", ")">>}

\* the lines of the teleport executor alone: each of them from c1, who holds the
\* permission, and one from another client
TeleportInbox(other) ==
    LET line == TP_ \o HERE \o <<" ", "(", "0", " ", "1", " ", "0", ")">>
        messages == {Message("c1", l) : l \in AllTeleportLines} \cup {Message(other, line)}
    IN  UNION {[1..n -> messages] : n \in 1..MaxQueue}

\* the words of the three grammars, a separator and other letters
Words == {TAKE_, GET_, ALL_, ENTER, <<"n">>, NORTH, <<" ">>, <<"a">>, <<"N">>}

\* the lines of at most n words
RECURSIVE LinesOf(_)
LinesOf(n) ==
    IF n = 0 THEN {<<>>}
    ELSE LinesOf(n - 1) \cup {l \o w : l \in LinesOf(n - 1), w \in Words}

MatcherLines == LinesOf(MaxWords)

\* the tokens given to the direction resolver: those of the movement grammar
\* and other lines
DirectionTokens == movement_regex \cup MatcherLines

\* the tiles a layout is made of: next to the requester, on the four edges of
\* the area map walks over, in another zone, on another level, with an empty
\* sprite
MapTiles ==
    {MapTile("Void", IVec3(1, 0, 0), <<"#", "#">>),
     MapTile("Void", IVec3(0 - 32, 0 - 8, 0), <<"^">>),
     MapTile("Void", IVec3(31, 7, 0), <<"v">>),
     MapTile("Void", IVec3(0, 8, 0), <<".">>),
     MapTile("Void", IVec3(32, 0, 0), <<"~">>),
     MapTile("Void", IVec3(2, 0, 0), <<>>),
     MapTile("Movement", IVec3(0, 1, 0), <<"M">>),
     MapTile("Void", IVec3(0, 1, 1), <<"u">>)}

MapLayouts == SUBSET MapTiles

\* where the requester stands
MapPositions == {Pos("Void", IVec3(0, 0, 0)), Pos("Void", IVec3(0, 1, 0))}

\* the roles and permissions Character::can is applied to
CanValues == ((0 - MaxRole)..MaxRole) \cup {0 - 32768, 32767}

\* the matcher of one executor applied to one input line
matcher(kind, from, content) ==
    CASE kind = "take" -> handle_take(from, content)
      [] kind = "movement" -> parse_movement(from, content)
      [] kind = "enter" -> parse_enter(from, content)
      [] kind = "teleport" -> teleport_message(from, content)

\* the commands an executor reads: what its matcher sent for each line, in order
RECURSIVE parse_all(_, _)
parse_all(kind, inbox) ==
    IF inbox = <<>> THEN <<>>
    ELSE matcher(kind, inbox[1].from, inbox[1].content) \o parse_all(kind, Tail(inbox))

(***************************************************************************)
(* Specification                                                           *)
(***************************************************************************)
Now == World(parent, children, position)

\* no function has been called on its own
NoCall == [args |-> <<>>, result |-> <<>>]

Init ==
    /\ parent = InitParent
    /\ children = InitChildren
    /\ position = InitPosition
    /\ pre = Snapshot(World(InitParent, InitChildren, InitPosition), <<>>)
    /\ log = <<>>
    /\ unread = <<>>
    /\ call = NoCall

\* one run of an executor over the commands of the tick
Ran(commands, entries) ==
    /\ pre' = Snapshot(Now, commands)
    /\ log' = entries
    /\ parent' = last_world(Now, entries).parent
    /\ children' = last_world(Now, entries).children
    /\ position' = last_world(Now, entries).position

TakeOf(lines) ==
    \E inbox \in Inbox(lines) :
        LET commands == parse_all("take", inbox)
        IN  Ran(commands, take(Now, commands)) /\ UNCHANGED <<unread, call>>

MovementOf(lines) ==
    \E inbox \in Inbox(lines) :
        LET commands == parse_all("movement", inbox)
        IN  Ran(commands, movement(Now, commands)) /\ UNCHANGED <<unread, call>>

EnterOf(lines) ==
    \E inbox \in Inbox(lines) :
        LET commands == parse_all("enter", inbox)
        IN  Ran(commands, enter(Now, commands)) /\ UNCHANGED <<unread, call>>

\* one run of teleport: its reader holds what it left unread in the tick before
\* and then the messages of this tick
TeleportRun(inbox) ==
    LET messages == unread \o parse_all("teleport", inbox)
        entries == teleport(Now, messages)
    IN  /\ Ran(messages, entries)
        /\ unread' = left_unread(Len(unread), messages, entries)
        /\ UNCHANGED call

TeleportFrom(clients, lines, max) ==
    \E inbox \in InboxUpTo(clients, lines, max) : TeleportRun(inbox)

TeleportOf(lines) == TeleportFrom(Clients, lines, MaxQueue)

Take == TakeOf(TakeLines)

TakeFew == TakeOf(FewTakeLines)

TakeSome == TakeOf(SomeTakeLines)

Movement == MovementOf(MovementLines)

MovementFew == MovementOf(FewMovementLines)

\* the take executor alone
SpecTake == Init /\ [][Take]_vars

\* the movement executor alone
SpecMovement == Init /\ [][Movement]_vars

Enter == EnterOf(EnterLines)

EnterFew == EnterOf(FewEnterLines)

\* teleport among the four executors: one teleport line in a tick
Teleport == TeleportFrom(Clients, TeleportLines, 1)

\* the teleport executor alone, with a client whose Character lacks the permission
TeleportAll == \E inbox \in TeleportInbox("c2") : TeleportRun(inbox)

SpecTeleport == Init /\ [][TeleportAll]_vars

\* the teleport executor alone, with a client that has no player
TeleportUnauth == \E inbox \in TeleportInbox("c3") : TeleportRun(inbox)

SpecUnauth == Init /\ [][TeleportUnauth]_vars

\* Character::can applied to a role and a permission
InitCan ==
    /\ parent = InitParent
    /\ children = InitChildren
    /\ position = InitPosition
    /\ pre = Snapshot(World(InitParent, InitChildren, InitPosition), <<>>)
    /\ log = <<>>
    /\ unread = <<>>
    /\ \E role \in CanValues, permission \in CanValues :
          call = [args |-> <<role, permission>>, result |-> <<>>]

Can ==
    /\ call.result = <<>>
    /\ call' = [call EXCEPT !.result = <<can(call.args[1], call.args[2])>>]
    /\ UNCHANGED <<parent, children, position, pre, log, unread>>

SpecCan == InitCan /\ [][Can]_vars

\* the three matchers applied to one input line of a client: what each one
\* queues (a matcher that queues nothing returns false, one that queues a
\* command returns true)
InitMatch ==
    /\ parent = InitParent
    /\ children = InitChildren
    /\ position = InitPosition
    /\ pre = Snapshot(World(InitParent, InitChildren, InitPosition), <<>>)
    /\ log = <<>>
    /\ unread = <<>>
    /\ \E client \in Connected, content \in MatcherLines :
          call = [args |-> <<client, content>>, result |-> <<>>]

Match ==
    /\ call.result = <<>>
    /\ call' = [call EXCEPT !.result =
                    <<[take |-> handle_take(call.args[1], call.args[2]),
                       movement |-> parse_movement(call.args[1], call.args[2]),
                       enter |-> parse_enter(call.args[1], call.args[2])]>>]
    /\ UNCHANGED <<parent, children, position, pre, log, unread>>

SpecMatch == InitMatch /\ [][Match]_vars

\* offset_for_direction applied to a token
InitDirection ==
    /\ parent = InitParent
    /\ children = InitChildren
    /\ position = InitPosition
    /\ pre = Snapshot(World(InitParent, InitChildren, InitPosition), <<>>)
    /\ log = <<>>
    /\ unread = <<>>
    /\ \E direction \in DirectionTokens :
          call = [args |-> <<direction>>, result |-> <<>>]

Direction ==
    /\ call.result = <<>>
    /\ call' = [call EXCEPT !.result = <<offset_for_direction(call.args[1])>>]
    /\ UNCHANGED <<parent, children, position, pre, log, unread>>

SpecDirection == InitDirection /\ [][Direction]_vars

\* map for one message, on a layout of tiles and a Position of the requester
InitMap ==
    /\ parent = InitParent
    /\ children = InitChildren
    /\ position = InitPosition
    /\ pre = Snapshot(World(InitParent, InitChildren, InitPosition), <<>>)
    /\ log = <<>>
    /\ unread = <<>>
    /\ \E layout \in MapLayouts, pos \in MapPositions :
          call = [args |-> <<layout, pos>>, result |-> <<>>]

Map ==
    /\ call.result = <<>>
    /\ call' = [call EXCEPT !.result = <<map_render(call.args[1], call.args[2])>>]
    /\ UNCHANGED <<parent, children, position, pre, log, unread>>

SpecMap == InitMap /\ [][Map]_vars

\* the enter executor alone
SpecEnter == Init /\ [][Enter]_vars

\* the four executors
Next == TakeFew \/ Movement \/ EnterFew \/ Teleport

Spec == Init /\ [][Next]_vars

\* the two executors that reparent
NextItems == TakeSome \/ MovementFew

SpecItems == Init /\ [][NextItems]_vars

\* the three executors that iterate over the ParsedCommand events
NextBus == TakeFew \/ MovementFew \/ EnterFew

SpecBus == Init /\ [][NextBus]_vars

(***************************************************************************)
(* Properties                                                              *)
(***************************************************************************)
Before == World(pre.parent, pre.children, pre.position)

\* the world on which the k-th command's own effects took place
BeforeOf(k) == IF k = 1 THEN Before ELSE log[k - 1].after

\* the worlds the last run went through, the current one last
Worlds == {Now} \cup {log[k].after : k \in 1..Len(log)}

occurrences(v, x) == Len(SelectSeq(v, LAMBDA e : e = x))

eq_ignore_case(a, b) == to_lowercase(a) = to_lowercase(b)

\* C1: every player's Position is the Position of the Tile that is the player's
\* containment parent, after any sequence of movement, enter, teleport and take.
C1_PositionIsParentTile ==
    \A p \in Players : parent[p] \in Tiles /\ position[p] = TilePosition[parent[p]]

\* C2: every item and every player has exactly one containment owner, a Tile or
\* an Inventory (a player: a Tile): it is once in the Children of its Parent and
\* in the Children of no other owner, in the world every reparenting leaves.
C2_ExactlyOneOwner ==
    \A w \in Worlds : \A e \in Movable :
        /\ w.parent[e] \in (IF e \in Players THEN Tiles ELSE Owners)
        /\ \A o \in Owners :
              occurrences(w.children[o], e) = (IF o = w.parent[e] THEN 1 ELSE 0)

\* a take and a movement have both reparented: an item is held in an inventory
\* and a player stands on another tile than at the start
C2_Witness ==
    /\ \E i \in Items : parent[i] \in Inventories
    /\ \E p \in Players : parent[p] # InitParent[p]
    /\ \E k \in 1..Len(log) : log[k].ops # <<>>

\* the player a command comes from, its tile when the take or movement system
\* started, and its own inventory
Requester(e) == CHOOSE p \in Players : ClientId[p] = e.from

TileOf(e) == Before.parent[Requester(e)]

InventoryOf(e) ==
    CHOOSE v \in Inventories : contains(PlayerChildren[Requester(e)], v)

IsTake(k) == log[k].kind = "take" /\ \E p \in Players : ClientId[p] = log[k].from

elements(v) == {v[k] : k \in 1..Len(v)}

\* the target is, ignoring letter case, the name, the short name or a tag
claim_match(i, target) ==
    \/ eq_ignore_case(Item[i].name, target)
    \/ eq_ignore_case(Item[i].short_name, target)
    \/ \E k \in 1..Len(Item[i].tags) : eq_ignore_case(Item[i].tags[k], target)

\* the target is, letter for letter, the name, the short name or a tag
exact_match(i, target) ==
    \/ Item[i].name = target
    \/ Item[i].short_name = target
    \/ \E k \in 1..Len(Item[i].tags) : Item[i].tags[k] = target

\* the takable items on the requester's tile that match the target, in child order
Candidates(e) ==
    SelectSeq(Before.children[TileOf(e)],
              LAMBDA s : s \in Items /\ s \in CanTake /\ claim_match(s, e.arg))

same_names(v) == \A j, k \in 1..Len(v) : Item[v[j]].name = Item[v[k]].name

\* C3: a take without `all` on a tile holding a matching takable item reparents
\* exactly one item, the first match in child order, into the requester's own
\* inventory: the command makes the tile's child count one less and the
\* inventory's one more, leaves every other child, and answers "You take a NAME."
C3_TakeOne ==
    \A k \in 1..Len(log) :
        (IsTake(k) /\ ~log[k].flag /\ Candidates(log[k]) # <<>>) =>
            LET e == log[k]
                first == Candidates(e)[1]
                b == BeforeOf(k)
            IN  /\ e.sel = <<first>>
                /\ e.after.parent[first] = InventoryOf(e)
                /\ Len(e.after.children[TileOf(e)]) = Len(b.children[TileOf(e)]) - 1
                /\ Len(e.after.children[InventoryOf(e)]) = Len(b.children[InventoryOf(e)]) + 1
                /\ \A c \in elements(b.children[TileOf(e)]) \ {first} :
                      c \in elements(e.after.children[TileOf(e)])
                /\ e.sent /\ e.resp = YOU_TAKE_ \o <<"a", " ">> \o Item[first].name \o <<".">>

\* C4: a take with `all` reparents every matching takable child of the tile and
\* no other child into the requester's inventory: with n matches the command
\* makes the inventory gain n and the tile lose n, and answers "You take n NAMEs."
\* for n >= 2 items of one name, "You take a NAME." for one item.
C4_TakeAll ==
    \A k \in 1..Len(log) :
        (IsTake(k) /\ log[k].flag /\ Candidates(log[k]) # <<>>) =>
            LET e == log[k]
                found == Candidates(e)
                n == Len(found)
                b == BeforeOf(k)
            IN  /\ e.sel = found
                /\ \A i \in elements(found) : e.after.parent[i] = InventoryOf(e)
                /\ Len(e.after.children[InventoryOf(e)]) = Len(b.children[InventoryOf(e)]) + n
                /\ Len(e.after.children[TileOf(e)]) = Len(b.children[TileOf(e)]) - n
                /\ \A c \in elements(b.children[TileOf(e)]) \ elements(found) :
                      c \in elements(e.after.children[TileOf(e)])
                /\ e.sent
                /\ (n = 1) =>
                      e.resp = YOU_TAKE_ \o <<"a", " ">> \o Item[found[1]].name \o <<".">>
                /\ (n >= 2 /\ same_names(found)) =>
                      e.resp = YOU_TAKE_ \o to_string(n) \o <<" ">> \o Item[found[1]].name
                               \o <<"s", ".">>

\* C5: a take whose target matches no takable item on the requester's tile
\* answers "You don't see a {target} here." and changes no containment edge:
\* no Children and no Parent differs before and after the command.
C5_TakeMiss ==
    \A k \in 1..Len(log) :
        (IsTake(k) /\ Candidates(log[k]) = <<>>) =>
            /\ log[k].sent
            /\ log[k].resp = YOU_DONT_SEE_A_ \o log[k].arg \o HERE_DOT
            /\ log[k].after.children = BeforeOf(k).children
            /\ log[k].after.parent = BeforeOf(k).parent
            /\ ((\A j \in 1..Len(log) : IsTake(j) /\ Candidates(log[j]) = <<>>) =>
                    children = pre.children /\ parent = pre.parent)

\* a take that misses although takable and non-takable items lie on the tile
C5_Witness ==
    \E k \in 1..Len(log) :
        /\ IsTake(k) /\ Candidates(log[k]) = <<>>
        /\ log[k].resp = YOU_DONT_SEE_A_ \o log[k].arg \o HERE_DOT
        /\ \E i \in CanTake : Before.parent[i] = TileOf(log[k])
        /\ \E i \in Items \ CanTake : Before.parent[i] = TileOf(log[k]) /\ claim_match(i, log[k].arg)

\* C6: take selects only among the takable children of the requester's own tile;
\* what it selects matches the target as a whole string (letter case aside) on
\* name, short name or a tag, and a child whose name, short name or tag is the
\* target is selected; nothing else changes owner in a tick of take: no
\* non-takable item, player or transition, no item of another tile, no item
\* that was held in an inventory.
C6_TakeFrame ==
    /\ \A k \in 1..Len(log) :
          IsTake(k) =>
              LET e == log[k]
                  onTile == elements(Before.children[TileOf(e)]) \cap CanTake
              IN  /\ \A j \in 1..Len(e.ops) :
                        /\ e.ops[j].child \in onTile
                        /\ claim_match(e.ops[j].child, e.arg)
                        /\ e.ops[j].parent = InventoryOf(e)
                  /\ \A i \in onTile :
                        exact_match(i, e.arg) =>
                            IF e.flag THEN \E j \in 1..Len(e.ops) : e.ops[j].child = i
                            ELSE Len(e.ops) = 1
    /\ (\A k \in 1..Len(log) : log[k].kind = "take") =>
          \A x \in DOMAIN parent :
              parent[x] # pre.parent[x] =>
                  /\ x \in CanTake
                  /\ pre.parent[x] \in Tiles
                  /\ \E k \in 1..Len(log) :
                        /\ TileOf(log[k]) = pre.parent[x]
                        /\ parent[x] = InventoryOf(log[k])
                        /\ claim_match(x, log[k].arg)

\* an item is taken by its tag though its name differs from the target, while a
\* non-takable item matching the target and an item of another tile stay
C6_Witness ==
    \E k \in 1..Len(log) :
        /\ IsTake(k) /\ Len(log[k].ops) = 1
        /\ LET i == log[k].ops[1].child
           IN  /\ Item[i].name # log[k].arg /\ Item[i].short_name # log[k].arg
               /\ contains(Item[i].tags, log[k].arg)
               /\ parent[i] = InventoryOf(log[k])
        /\ \E i \in Items \ CanTake : exact_match(i, log[k].arg) /\ parent[i] = TileOf(log[k])
        /\ \E i \in CanTake : parent[i] \in Tiles \ {TileOf(log[k])}
        /\ \E i \in CanTake : Before.parent[i] \in Inventories /\ parent[i] = Before.parent[i]

\* C7: matching is case-insensitive on name, short name and tags: a takable item
\* of the tile is matched iff the target equals one of them ignoring case.
C7_CaseInsensitive ==
    \A k \in 1..Len(log) :
        IsTake(k) =>
            LET e == log[k]
                onTile == elements(Before.children[TileOf(e)]) \cap CanTake
            IN  IF e.flag
                THEN \A i \in onTile : (i \in elements(e.sel)) <=> claim_match(i, e.arg)
                ELSE (e.sel # <<>>) <=> (\E i \in onTile : claim_match(i, e.arg))

IsMovement(k) == log[k].kind = "movement" /\ \E p \in Players : ClientId[p] = log[k].from

\* +x east, +y south, +z up
unit(c) ==
    CASE c = "n" -> IVec3(0, -1, 0)
      [] c = "s" -> IVec3(0, 1, 0)
      [] c = "e" -> IVec3(1, 0, 0)
      [] c = "w" -> IVec3(-1, 0, 0)
      [] c = "u" -> IVec3(0, 0, 1)
      [] c = "d" -> IVec3(0, 0, -1)

\* the short alias of a direction: the initials of its compass words
initials(d) ==
    IF Len(d) <= 2 THEN d
    ELSE IF Len(d) <= 5 THEN <<d[1]>>
    ELSE <<d[1], d[6]>>

\* the offset of direction d: the sum of the units of its initials
claim_offset(d) ==
    IF Len(initials(d)) = 1 THEN unit(initials(d)[1])
    ELSE add(unit(initials(d)[1]), unit(initials(d)[2]))

\* the tiles at the key (zone of the requester's tile, its coordinates + offset)
Destination(e) ==
    {t \in Tiles :
        /\ TilePosition[t].zone = TilePosition[TileOf(e)].zone
        /\ TilePosition[t].coords = add(TilePosition[TileOf(e)].coords, claim_offset(e.arg))}

\* the tile the last successful movement of player p in the log leads to
RECURSIVE LastTarget(_, _)
LastTarget(p, k) ==
    IF k = 0 THEN pre.parent[p]
    ELSE IF log[k].kind = "movement" /\ log[k].from = ClientId[p] /\ log[k].ops # <<>>
    THEN log[k].ops[1].parent
    ELSE LastTarget(p, k - 1)

\* C8: a movement in direction d by a requester whose containing tile has key
\* (zone, c), when a tile with key (zone, c + offset(d)) exists, reparents the
\* requester from that tile to exactly this one: the zone of its tile is the
\* same, the coordinates of its tile are c + offset(d).
C8_MovementReparents ==
    /\ \A k \in 1..Len(log) :
          (IsMovement(k) /\ Destination(log[k]) # {}) =>
              LET e == log[k]
                  p == Requester(e)
                  to == e.after.parent[p]
              IN  /\ to \in Destination(e)
                  /\ e.ops = <<Op(p, to)>>
                  /\ occurrences(e.after.children[to], p) = 1
                  /\ occurrences(e.after.children[TileOf(e)], p) = 0
                  /\ TilePosition[to].zone = TilePosition[TileOf(e)].zone
                  /\ TilePosition[to].coords =
                        add(TilePosition[TileOf(e)].coords, claim_offset(e.arg))
                  /\ e.after.position[p].zone = BeforeOf(k).position[p].zone
    /\ (\A k \in 1..Len(log) : log[k].kind = "movement") =>
          \A p \in Players :
              /\ parent[p] = LastTarget(p, Len(log))
              /\ TilePosition[parent[p]].zone = TilePosition[pre.parent[p]].zone

\* a requester has moved south and stands on the tile one step south
C8_Witness ==
    \E k \in 1..Len(log) :
        /\ IsMovement(k) /\ Destination(log[k]) # {}
        /\ parent[Requester(log[k])] \in Destination(log[k])
        /\ parent[Requester(log[k])] # pre.parent[Requester(log[k])]
        /\ TilePosition[parent[Requester(log[k])]].coords # TilePosition[TileOf(log[k])].coords

\* C9: a movement toward a key at which no tile exists answers
\* "You can't go that way." and changes nothing: the requester's parent, the
\* Children of every owner and every Position are as before the command.
C9_MovementBlocked ==
    \A k \in 1..Len(log) :
        (IsMovement(k) /\ Destination(log[k]) = {}) =>
            /\ log[k].sent
            /\ log[k].resp = YOU_CANT_GO_THAT_WAY
            /\ log[k].ops = <<>>
            /\ log[k].after = BeforeOf(k)
            /\ ((\A j \in 1..Len(log) : IsMovement(j) /\ Destination(log[j]) = {}) =>
                    Now = Before)

\* a movement is refused although a tile with the target coordinates exists in
\* another zone
C9_Witness ==
    \E k \in 1..Len(log) :
        /\ IsMovement(k) /\ Destination(log[k]) = {}
        /\ log[k].resp = YOU_CANT_GO_THAT_WAY
        /\ parent[Requester(log[k])] = TileOf(log[k])
        /\ \E t \in Tiles :
              TilePosition[t].coords = add(TilePosition[TileOf(log[k])].coords,
                                           claim_offset(log[k].arg))

IsEnter(k) == log[k].kind = "enter" /\ \E p \in Players : ClientId[p] = log[k].from

\* the tiles at the requester's zone and coordinates when the k-th command is read
Here(k) ==
    LET at == BeforeOf(k).position[Requester(log[k])]
    IN  {t \in Tiles : TilePosition[t] = at}

\* the transitions owned by tile t, in child order, that carry the tag
Tagged(k, t, tag) ==
    SelectSeq(BeforeOf(k).children[t],
              LAMBDA x : x \in Transitions
                         /\ \E j \in 1..Len(Transition[x].tags) : Transition[x].tags[j] = tag)

\* C10: an enter with a target that is a tag of a transition owned by the tile
\* at the requester's zone and coordinates selects the first such transition
\* and sets the requester's zone and coordinates to its destination.
C10_EnterByTag ==
    \A k \in 1..Len(log) :
        (IsEnter(k) /\ log[k].flag) =>
            \A t \in Here(k) :
                Tagged(k, t, log[k].arg) # <<>> =>
                    LET x == Tagged(k, t, log[k].arg)[1]
                    IN  /\ log[k].sel = <<x>>
                        /\ log[k].after.position[Requester(log[k])] =
                              Pos(Transition[x].zone, Transition[x].coords)
                        /\ log[k].sent

\* an enter by tag chose the first of two transitions carrying the tag and the
\* requester's zone and coordinates changed to its destination
C10_Witness ==
    \E k \in 1..Len(log) :
        /\ IsEnter(k) /\ log[k].flag
        /\ \E t \in Here(k) :
              /\ Len(Tagged(k, t, log[k].arg)) >= 2
              /\ log[k].after.position[Requester(log[k])] =
                    Pos(Transition[Tagged(k, t, log[k].arg)[1]].zone,
                        Transition[Tagged(k, t, log[k].arg)[1]].coords)
              /\ log[k].after.position[Requester(log[k])] #
                    Pos(Transition[Tagged(k, t, log[k].arg)[2]].zone,
                        Transition[Tagged(k, t, log[k].arg)[2]].coords)
              /\ log[k].after.position[Requester(log[k])] # BeforeOf(k).position[Requester(log[k])]

\* the transitions owned by tile t when the k-th command is read, in child order
Owned(k, t) == SelectSeq(BeforeOf(k).children[t], LAMBDA x : x \in Transitions)

\* C11: an enter without a target, on a tile (the one at the requester's zone and
\* coordinates) owning transitions, selects the first transition in the tile's
\* child order, and the requester ends at that transition's destination.
C11_EnterFirst ==
    \A k \in 1..Len(log) :
        (IsEnter(k) /\ ~log[k].flag) =>
            \A t \in Here(k) :
                Owned(k, t) # <<>> =>
                    LET x == Owned(k, t)[1]
                    IN  /\ log[k].sel = <<x>>
                        /\ log[k].after.position[Requester(log[k])] =
                              Pos(Transition[x].zone, Transition[x].coords)
                        /\ log[k].sent

\* an enter without a target on a tile owning two transitions with different
\* destinations has led to the destination of the first
C11_Witness ==
    \E k \in 1..Len(log) :
        /\ IsEnter(k) /\ ~log[k].flag
        /\ \E t \in Here(k) :
              /\ Len(Owned(k, t)) >= 2
              /\ Pos(Transition[Owned(k, t)[1]].zone, Transition[Owned(k, t)[1]].coords) #
                    Pos(Transition[Owned(k, t)[2]].zone, Transition[Owned(k, t)[2]].coords)
              /\ log[k].after.position[Requester(log[k])] =
                    Pos(Transition[Owned(k, t)[1]].zone, Transition[Owned(k, t)[1]].coords)
              /\ log[k].after.position[Requester(log[k])] # BeforeOf(k).position[Requester(log[k])]

\* C12: an enter whose target is a tag of none of the transitions owned by the
\* requester's tile, which owns at least one, answers "Could not find entrance."
\* and leaves the requester's zone, coordinates and parent (and all else) as
\* they were.
C12_EnterUnmatched ==
    \A k \in 1..Len(log) :
        (IsEnter(k) /\ log[k].flag) =>
            \A t \in Here(k) :
                (Owned(k, t) # <<>> /\ Tagged(k, t, log[k].arg) = <<>>) =>
                    /\ log[k].sent
                    /\ log[k].resp = COULD_NOT_FIND_ENTRANCE
                    /\ log[k].after = BeforeOf(k)

\* an enter is refused on a tile owning a transition, for a target that is a tag
\* of a transition of another tile
C12_Witness ==
    \E k \in 1..Len(log) :
        /\ IsEnter(k) /\ log[k].flag
        /\ log[k].resp = COULD_NOT_FIND_ENTRANCE
        /\ \E t \in Here(k) : Owned(k, t) # <<>> /\ Tagged(k, t, log[k].arg) = <<>>
        /\ \E t \in Tiles : Tagged(k, t, log[k].arg) # <<>>
        /\ position = Before.position

\* C13: an enter on a tile that owns no transition answers "There is nowhere to
\* enter from here.", with a target or without, and leaves the requester's
\* position (and all else) as it was.
C13_NowhereToEnter ==
    \A k \in 1..Len(log) :
        IsEnter(k) =>
            \A t \in Here(k) :
                Owned(k, t) = <<>> =>
                    /\ log[k].sent
                    /\ log[k].resp = NOWHERE_TO_ENTER
                    /\ log[k].after = BeforeOf(k)

\* on a tile without transitions an enter with a target and an enter without
\* one are both answered that there is nowhere to enter
C13_Witness ==
    /\ \E k \in 1..Len(log) :
          /\ IsEnter(k) /\ log[k].flag /\ log[k].resp = NOWHERE_TO_ENTER
          /\ \E t \in Here(k) : Owned(k, t) = <<>>
          /\ \E t \in Tiles : Tagged(k, t, log[k].arg) # <<>>
    /\ \E k \in 1..Len(log) :
          IsEnter(k) /\ ~log[k].flag /\ log[k].resp = NOWHERE_TO_ENTER

\* the transitions the k-th command, an enter, looked at
Considered(k) == IF log[k].tile \in Tiles THEN Owned(k, log[k].tile) ELSE <<>>

\* C14: the transitions an enter considers are exactly the transitions that are
\* children of the tile that is the requester's containment parent, in every
\* reachable state, also after the requester has moved.
C14_EnterByContainment ==
    \A k \in 1..Len(log) :
        IsEnter(k) => Considered(k) = Owned(k, BeforeOf(k).parent[Requester(log[k])])

\* C15: an enter with a target matches the tags ignoring letter case, after
\* trimming: a transition is selected iff a transition of the tile has a tag
\* equal to the trimmed target ignoring case, and the one selected has one.
C15_EnterCaseInsensitive ==
    \A k \in 1..Len(log) :
        (IsEnter(k) /\ log[k].flag) =>
            \A t \in Here(k) :
                LET matches(x) == \E j \in 1..Len(Transition[x].tags) :
                                      eq_ignore_case(Transition[x].tags[j], log[k].arg)
                IN  /\ (log[k].sel # <<>>) <=> (\E x \in elements(Owned(k, t)) : matches(x))
                    /\ \A x \in elements(log[k].sel) : matches(x)

IsTeleport(k) == log[k].kind = "teleport"

Authenticated(k) == \E p \in Players : ClientId[p] = log[k].from

\* bit k of the 16 bits of a role or permission value
bit(v, k) == ((v % 65536) \div (2 ^ k)) % 2

\* some bit of the teleport capability is missing from the player's role
LacksTeleport(p) == \E k \in 0..15 : bit(TELEPORT, k) = 1 /\ bit(Role[p], k) = 0

\* C16: a well-formed teleport from a Character whose role lacks the teleport
\* bit changes neither the requester's zone nor its coordinates and sends no
\* response; such a player's Position is never changed by teleport.
C16_NoPermissionNoTeleport ==
    /\ \A k \in 1..Len(log) :
          (IsTeleport(k) /\ Authenticated(k) /\ LacksTeleport(Requester(log[k]))) =>
              /\ ~log[k].sent
              /\ log[k].resp = <<>>
              /\ log[k].after.position[Requester(log[k])]
                     = BeforeOf(k).position[Requester(log[k])]
    /\ \A p \in Players : LacksTeleport(p) => position[p] = InitPosition[p]

\* in one tick a player holding the bit has teleported and then a well-formed
\* teleport of a player lacking it was read
C16_Witness ==
    \E k \in 2..Len(log) :
        /\ IsTeleport(k) /\ Authenticated(k) /\ LacksTeleport(Requester(log[k]))
        /\ IsTeleport(1) /\ log[1].after.position # Before.position
        /\ log[k].sel = <<>>

\* every bit set in permission is also set in role
AllBitsHeld(role, permission) ==
    \A k \in 0..15 : bit(permission, k) = 1 => bit(role, k) = 1

\* C17: Character.can(permission) is true iff every bit set in permission is
\* also set in role, for every role and permission; a role of 0 satisfies no
\* non-zero permission, and holding some but not all requested bits is not
\* enough.
C17_CanIsSubset ==
    (call.result # <<>>) =>
        LET role == call.args[1]
            permission == call.args[2]
            some == \E k \in 0..15 : bit(permission, k) = 1 /\ bit(role, k) = 1
            all == \A k \in 0..15 : bit(permission, k) = 1 => bit(role, k) = 1
        IN  /\ call.result[1] = AllBitsHeld(role, permission)
            /\ (role = 0 /\ permission # 0) => call.result[1] = FALSE
            /\ (some /\ ~all) => call.result[1] = FALSE

\* can was called on a role that holds one of the two requested bits, and
\* answered false
C17_Witness ==
    /\ call.args = <<1, 3>>
    /\ call.result = <<FALSE>>

\* the number a decimal digit stands for
DigitValue ==
    "0" :> 0 @@ "1" :> 1 @@ "2" :> 2 @@ "3" :> 3 @@ "4" :> 4 @@
    "5" :> 5 @@ "6" :> 6 @@ "7" :> 7 @@ "8" :> 8 @@ "9" :> 9

\* the k-th command is a teleport of a player holding the teleport bit
Teleports(k) ==
    IsTeleport(k) /\ Authenticated(k) /\ ~LacksTeleport(Requester(log[k]))

\* C18: for a requester holding the teleport bit, teleport sets the coordinates
\* to the three parsed digits, each in 0..9 (a digit the integer parse rejects
\* gives a coordinate in 0..9 as well); the zone stays the current one for
\* "here", becomes the named zone for a known name and Void for an unknown
\* name; the containment (the requester's parent included) is left unchanged,
\* whether or not a tile exists at the destination.
C18_TeleportSetsPosition ==
    \A k \in 1..Len(log) :
        Teleports(k) =>
            LET p == Requester(log[k])
                was == BeforeOf(k)
                now == log[k].after
                digits == log[k].sel
                zone == IF log[k].arg = HERE THEN was.position[p].zone
                        ELSE IF log[k].arg = MOVEMENT THEN "Movement"
                        ELSE "Void"
            IN  /\ Len(digits) = 3
                /\ \A j \in 1..3 :
                      /\ now.position[p].coords[j] \in 0..9
                      /\ digits[j] \in DOMAIN DigitValue =>
                             now.position[p].coords[j] = DigitValue[digits[j]]
                /\ now.position[p].zone = zone
                /\ now.parent = was.parent
                /\ now.children = was.children
                /\ \A q \in Players \ {p} : now.position[q] = was.position[q]

\* a teleport to an unknown zone name took the requester from Movement to Void,
\* to coordinates where no tile exists, and its parent is its first tile
C18_Witness ==
    \E k \in 1..Len(log) :
        /\ Teleports(k)
        /\ log[k].arg \notin {HERE, MOVEMENT, VOID}
        /\ \A j \in 1..3 : log[k].sel[j] \in DOMAIN DigitValue
        /\ BeforeOf(k).position[Requester(log[k])].zone = "Movement"
        /\ log[k].after.position[Requester(log[k])].zone = "Void"
        /\ tile_at(log[k].after.position[Requester(log[k])].zone,
                   log[k].after.position[Requester(log[k])].coords) = {}
        /\ log[k].after.parent[Requester(log[k])] = InitParent[Requester(log[k])]

\* the containment after the reparentings of the entries k.. of the log, each
\* entry's own in turn, oldest entry first
RECURSIVE Replay(_, _)
Replay(w, k) ==
    IF k > Len(log) THEN w ELSE Replay(apply_buffer(w, log[k].ops), k + 1)

\* C19: the commands queued in one tick for one executor are each processed
\* exactly once and in arrival order: the log has one entry per command, the
\* k-th entry (its response included) is that of the k-th command, each
\* entry's state change is made on the world the entry before it left, and the
\* state at the end of the tick is that of all changes made oldest first.
C19_Fifo ==
    /\ Len(log) = Len(pre.commands)
    /\ \A k \in 1..Len(log) :
          /\ log[k].from = pre.commands[k].from
          /\ log[k].kind = pre.commands[k].kind
          /\ log[k].arg = pre.commands[k].arg
          /\ log[k].flag = pre.commands[k].flag
          /\ log[k].after.parent = apply_buffer(BeforeOf(k), log[k].ops).parent
          /\ log[k].after.children = apply_buffer(BeforeOf(k), log[k].ops).children
          /\ \A p \in Players :
                log[k].after.position[p] # BeforeOf(k).position[p] =>
                    ClientId[p] = log[k].from
    /\ parent = Replay(Before, 1).parent
    /\ children = Replay(Before, 1).children
    /\ position = (IF log = <<>> THEN pre.position ELSE log[Len(log)].after.position)

\* two commands of one tick reparented the same entity to different owners,
\* and the entity is with the owner the later command named
C19_Witness ==
    \E k1, k2 \in 1..Len(log) :
        /\ k1 < k2
        /\ log[k1].from # log[k2].from
        /\ \E a \in 1..Len(log[k1].ops), b \in 1..Len(log[k2].ops) :
              /\ log[k1].ops[a].child = log[k2].ops[b].child
              /\ log[k1].ops[a].parent # log[k2].ops[b].parent
              /\ parent[log[k2].ops[b].child] = log[k2].ops[b].parent

\* C20: a command whose precondition fails (here: a teleport from a client
\* that has no player) gets no response and changes nothing, and every command
\* queued after it in the same tick is still handled in that tick: the run
\* leaves an entry for each command it was given and leaves none unread.
C20_FailureSkipsOnlyItself ==
    /\ \A k \in 1..Len(log) :
          (IsTeleport(k) /\ ~Authenticated(k)) =>
              /\ ~log[k].sent
              /\ log[k].after = BeforeOf(k)
    /\ Len(log) = Len(pre.commands)
    /\ unread = <<>>

\* the character the spec puts in the cell (r, c), counted from 0, of the grid
\* of a requester at pos: '@' at the centre, else the first character of the
\* sprite of the tile there, else a space
ExpectedCell(layout, pos, r, c) ==
    LET x == pos.coords[1] - 32 + c
        y == pos.coords[2] - 8 + r
        there == {t \in layout : /\ t.zone = pos.zone
                                 /\ t.coords = <<x, y, pos.coords[3]>>}
    IN  IF r = 8 /\ c = 32 THEN "@"
        ELSE IF there = {} THEN " "
        ELSE LET t == CHOOSE t \in there : TRUE
             IN  IF t.character = <<>> THEN " " ELSE t.character[1]

\* C21: for any tile layout and any requester position, map does not fail and
\* renders exactly 16 rows of 64 characters: '@' at the centre, and in every
\* other cell the first sprite character of the tile at that coordinate (same
\* zone and z as the requester) or a space when no tile exists there.
C21_MapRenders ==
    (call.result # <<>>) =>
        LET layout == call.args[1]
            pos == call.args[2]
            out == call.result[1]
        IN  /\ ~out.panicked
            /\ out.sent
            /\ Len(out.rows) = 16
            /\ \A r \in 1..Len(out.rows) :
                  /\ Len(out.rows[r]) = 64
                  /\ \A c \in 1..Len(out.rows[r]) :
                        out.rows[r][c] = ExpectedCell(layout, pos, r - 1, c - 1)

\* C22: for every input line the take, movement and enter matchers together
\* queue at most one command: each matcher queues nothing or exactly one
\* command, of its own kind and tagged with the requesting client's id, and no
\* line is accepted by more than one of the three.
C22_AtMostOneCommand ==
    (call.result # <<>>) =>
        LET out == call.result[1]
            queued == out.take \o out.movement \o out.enter
        IN  /\ Len(queued) <= 1
            /\ Len(out.take) <= 1 /\ Len(out.movement) <= 1 /\ Len(out.enter) <= 1
            /\ \A k \in 1..Len(queued) : queued[k].from = call.args[1]
            /\ \A k \in 1..Len(out.take) : out.take[k].kind = "take"
            /\ \A k \in 1..Len(out.movement) : out.movement[k].kind = "movement"
            /\ \A k \in 1..Len(out.enter) : out.enter[k].kind = "enter"

\* a line that holds the word of another grammar was accepted by take alone,
\* and its command carries the client's id
C22_Witness ==
    /\ call.args[2] = TAKE_ \o ENTER
    /\ call.result # <<>>
    /\ Len(call.result[1].take) = 1
    /\ call.result[1].take[1].from = call.args[1]
    /\ call.result[1].movement = <<>>
    /\ call.result[1].enter = <<>>

\* the 10 directions: long and short alias, how far east, south and up one
\* step goes, and the long alias of the opposite direction
Compass ==
    {[long |-> "north", short |-> "n", east |-> 0, south |-> -1, up |-> 0, opposite |-> "south"],
     [long |-> "northeast", short |-> "ne", east |-> 1, south |-> -1, up |-> 0, opposite |-> "southwest"],
     [long |-> "east", short |-> "e", east |-> 1, south |-> 0, up |-> 0, opposite |-> "west"],
     [long |-> "southeast", short |-> "se", east |-> 1, south |-> 1, up |-> 0, opposite |-> "northwest"],
     [long |-> "south", short |-> "s", east |-> 0, south |-> 1, up |-> 0, opposite |-> "north"],
     [long |-> "southwest", short |-> "sw", east |-> -1, south |-> 1, up |-> 0, opposite |-> "northeast"],
     [long |-> "west", short |-> "w", east |-> -1, south |-> 0, up |-> 0, opposite |-> "east"],
     [long |-> "northwest", short |-> "nw", east |-> -1, south |-> -1, up |-> 0, opposite |-> "southeast"],
     [long |-> "up", short |-> "u", east |-> 0, south |-> 0, up |-> 1, opposite |-> "down"],
     [long |-> "down", short |-> "d", east |-> 0, south |-> 0, up |-> -1, opposite |-> "up"]}

\* a word as the sequence of its characters
Chars ==
    [w \in {"north", "northeast", "east", "southeast", "south", "southwest", "west",
            "northwest", "up", "down", "n", "ne", "e", "se", "s", "sw", "w", "nw", "u", "d"} |->
        CASE w = "north" -> <<"n", "o", "r", "t", "h">>
          [] w = "northeast" -> <<"n", "o", "r", "t", "h", "e", "a", "s", "t">>
          [] w = "east" -> <<"e", "a", "s", "t">>
          [] w = "southeast" -> <<"s", "o", "u", "t", "h", "e", "a", "s", "t">>
          [] w = "south" -> <<"s", "o", "u", "t", "h">>
          [] w = "southwest" -> <<"s", "o", "u", "t", "h", "w", "e", "s", "t">>
          [] w = "west" -> <<"w", "e", "s", "t">>
          [] w = "northwest" -> <<"n", "o", "r", "t", "h", "w", "e", "s", "t">>
          [] w = "up" -> <<"u", "p">>
          [] w = "down" -> <<"d", "o", "w", "n">>
          [] w = "n" -> <<"n">>
          [] w = "ne" -> <<"n", "e">>
          [] w = "e" -> <<"e">>
          [] w = "se" -> <<"s", "e">>
          [] w = "s" -> <<"s">>
          [] w = "sw" -> <<"s", "w">>
          [] w = "w" -> <<"w">>
          [] w = "nw" -> <<"n", "w">>
          [] w = "u" -> <<"u">>
          [] w = "d" -> <<"d">>]

\* C23: the direction resolver maps each of the 10 directions to its fixed
\* offset (+x east, +y south, +z up), the same for the long and the short
\* alias; every token the movement grammar accepts yields an offset, any other
\* token yields none, and the offsets of opposite directions sum to zero.
C23_DirectionOffsets ==
    /\ Cardinality(Compass) = 10
    /\ (call.result # <<>>) =>
          LET token == call.args[1]
              out == call.result[1]
              named == {d \in Compass : token \in {Chars[d.long], Chars[d.short]}}
          IN  /\ \A d \in named :
                    /\ out = << <<d.east, d.south, d.up>> >>
                    /\ \A back \in {Chars[d.opposite]} :
                          /\ offset_for_direction(back) # <<>>
                          /\ add(out[1], offset_for_direction(back)[1]) = <<0, 0, 0>>
              /\ (parse_movement("c1", token) # <<>>) => Len(out) = 1
              /\ (named = {}) => out = <<>>
              /\ (named # {}) => parse_movement("c1", token) # <<>>

\* the resolver was given the short alias of southwest and answered one west,
\* one south
C23_Witness ==
    /\ call.args = << <<"s", "w">> >>
    /\ call.result = << << <<-1, 1, 0>> >> >>

\* the k-th command is a take that answered "You take ..."
ToldTaken(k) ==
    /\ IsTake(k) /\ log[k].sent
    /\ starts_with(log[k].resp, <<"Y", "o", "u", " ", "t", "a", "k", "e", " ">>)

\* C24: take responses are truthful when several takes are queued in one tick:
\* once the tick's reparenting is applied, every item counted in a
\* "You take ..." response is in the inventory of the client it was sent to,
\* and no item is reported as taken by two commands of the tick, be they of
\* two requesters or of one.
C24_TakeTruthful ==
    /\ \A k \in 1..Len(log) :
          ToldTaken(k) =>
              /\ log[k].sel # <<>>
              /\ \A i \in elements(log[k].sel) : parent[i] = InventoryOf(log[k])
    /\ \A j, k \in 1..Len(log) :
          (j < k /\ ToldTaken(j) /\ ToldTaken(k)) =>
              elements(log[j].sel) \cap elements(log[k].sel) = {}

\* the tiles one step in direction d from tile t
StepFrom(t, d) ==
    {u \in Tiles :
        /\ TilePosition[u].zone = TilePosition[t].zone
        /\ TilePosition[u].coords = add(TilePosition[t].coords, claim_offset(d))}

\* the tile player p stands on after its movement commands among the first k
\* of the tick, were they processed one tick after the other
RECURSIVE Walk(_, _)
Walk(p, k) ==
    IF k = 0 THEN pre.parent[p]
    ELSE LET from == Walk(p, k - 1)
         IN  IF log[k].kind = "movement" /\ log[k].from = ClientId[p]
                /\ StepFrom(from, log[k].arg) # {}
             THEN CHOOSE u \in StepFrom(from, log[k].arg) : TRUE
             ELSE from

\* C25: when one client queues two movement commands in one tick, the second
\* is resolved from the tile reached by the first: the tile each command starts
\* from, its response and the requester's final tile are those of the same
\* commands processed in successive ticks.
C25_MovementsChain ==
    (\A k \in 1..Len(log) : IsMovement(k)) =>
        /\ \A k \in 1..Len(log) :
              LET p == Requester(log[k])
                  from == Walk(p, k - 1)
                  to == StepFrom(from, log[k].arg)
              IN  /\ log[k].tile = from
                  /\ log[k].sent
                  /\ log[k].resp = (IF to = {} THEN YOU_CANT_GO_THAT_WAY
                                    ELSE view_for_tile(CHOOSE u \in to : TRUE, Brief[p]))
        /\ \A p \in Players : parent[p] = Walk(p, Len(log))

====
